---- MODULE Spec2Model ----
(***************************************************************************)
(* Model of the contacts-management backend: the user directory, the      *)
(* Redis user cache, JWT issuance/validation, the rate limiter and the     *)
(* routes of /users and /contacts.                                         *)
(*                                                                         *)
(* Time is counted in seconds.  A handler is a coroutine: it runs until    *)
(* it awaits the database or Redis, and other requests run while it        *)
(* waits.  A step of the model is one such await taking effect, followed   *)
(* by the handler's own code up to its next await or its response.  The    *)
(* requests that wait are kept in `pending`; the step taken last, with     *)
(* the response when it answered, is kept in `last`.                       *)
(***************************************************************************)
EXTENDS Integers, Sequences, FiniteSets, Bags, TLC

VARIABLES
    users,      \* the users table: a sequence of rows, the row's index is its id
    cache,      \* Redis: a function from a subset of Emails to [data, expires]
                \* (expires: the instant, in half seconds, the key is dropped at)
    now,        \* the clock read in whole seconds: timegm(utcnow().utctimetuple())
    pending,    \* the requests suspended at an await: a bag of their records
    contacts,   \* the contacts table: a set of rows
    contact_seq,\* the last id the contacts table assigned
    fraction,   \* the clock's half seconds beyond `now`
    held,       \* the token a client was issued and keeps, with its time of issue
    digests,    \* the digests get_password_hash returned, each with its plaintext
    limiter,    \* the rate limiter's window of each limited route
    role_default, \* the default of the users table's role column (never written)
    last        \* the step taken last: a request's record, answered or suspended

vars == <<users, cache, now, pending, contacts, contact_seq, fraction, held, digests,
          limiter, role_default, last>>

-----------------------------------------------------------------------------
(* Bounds of the model *)

MaxTicks == 2
MaxSalts == 2
MaxPending == 2
MaxContacts == 2
MaxHalfSeconds == 2
MaxApiContacts == 1
MaxApiPending == 1

(* Program constants *)

ACCESS_TOKEN_EXPIRE_MINUTES == 30
expiry == 3600

\* timedelta(minutes=ACCESS_TOKEN_EXPIRE_MINUTES), in seconds
DefaultExpiresDelta == ACCESS_TOKEN_EXPIRE_MINUTES * 60

-----------------------------------------------------------------------------
(* Value universes *)

Emails == {"alice", "bob"}
Passwords == {<<"p", "w", "1">>, <<"p", "w", "2">>}
\* The new passwords of a reset: one shorter than 8 characters, one not
NewPasswords == {<<"p", "w", "2">>, <<"p", "a", "s", "s", "w", "o", "r", "d">>}
Salts == 1..MaxSalts
Urls == {"url1", "url2"}

NoSub == "None"             \* payload.get("sub") is None
NoAvatar == "null"          \* avatar_url IS NULL
NoType == "absent"          \* the token carries no "type" claim

USER == "user"
ADMIN == "admin"
UserRole == {USER, ADMIN}

-----------------------------------------------------------------------------
(* Credential hasher: bcrypt through passlib.  A digest embeds its salt;   *)
(* verification recomputes the digest of the plaintext under that salt.    *)

\* bcrypt reads the first 72 bytes of a secret; passlib passes longer secrets
\* on unshortened and unrefused (truncate_error is off by default).
truncate_size == 72

bcrypt_truncate(secret) ==
    IF Len(secret) > truncate_size THEN SubSeq(secret, 1, truncate_size) ELSE secret

get_password_hash_at(password, salt) ==
    [alg |-> "bcrypt", salt |-> salt, pw |-> bcrypt_truncate(password)]

verify_password(plain_password, hashed_password) ==
    get_password_hash_at(plain_password, hashed_password.salt) = hashed_password

-----------------------------------------------------------------------------
(* Token service *)

\* expires_delta is None, or a timedelta of zero, which is falsy as well
NoDelta == 0

\* The expires_delta arguments of the model, in seconds
ExpiresDeltas == {NoDelta, 900}

\* create_access_token(data, expires_delta): data plus
\* exp = utcnow() + (expires_delta or 30 minutes), signed.  jwt.encode stores
\* exp in whole seconds (timegm(expire.utctimetuple())): t is the clock's
\* whole-second reading and the fraction of utcnow() is dropped.
create_access_token_delta(sub, type, t, expires_delta) ==
    [sub |-> sub, type |-> type,
     exp |-> t + (IF expires_delta = NoDelta THEN DefaultExpiresDelta ELSE expires_delta),
     sig |-> TRUE]

\* create_access_token(data): the default lifetime
create_access_token(sub, type, t) == create_access_token_delta(sub, type, t, NoDelta)

\* Mutant: the exp claim is not verified.
jwt_decode_ok_no_exp(token, t) == token.sig

\* jose.jwt.decode: JWTError on a bad signature or when exp < now, both in
\* whole seconds.
jwt_decode_ok(token, t) == token.sig /\ ~(token.exp < t)

\* payload.get("type", "access")
token_type_or_access(token) == IF token.type = NoType THEN "access" ELSE token.type

-----------------------------------------------------------------------------
(* User cache (RedisCacheManager) *)

isoformat(t) == <<"iso", t>>
fromisoformat(s) == s[2]

\* json.dumps / json.loads of a dict of strings, integers and None: Redis
\* holds the text, the reader gets an equal dict back.
json_dumps(user_data) == <<"json", user_data>>
json_loads(text) == text[2]

\* set_user_data's expiry argument is None, or 0, which is falsy as well
NoExpiry == 0

\* The expiry arguments of the model, in seconds
Expiries == {NoExpiry, 1800}

EmptyCache == [e \in {} |-> 0]

\* redis GET: a key whose expiry has passed is gone.  Instants of Redis are
\* counted in half seconds (t2), as its clock is not cut to whole seconds.
get_user_data_hit(ch, email, t2) == email \in DOMAIN ch /\ t2 < ch[email].expires

\* Mutant: the TTL is taken for minutes and converted to seconds.
set_user_data_wrong_ttl(ch, email, user_data, t2) ==
    [e \in DOMAIN ch \cup {email} |->
        IF e = email THEN [data |-> json_dumps(user_data), expires |-> t2 + 2 * expiry * 60]
        ELSE ch[e]]

\* set_user_data(user_email, user_data, expiry): redis SET key json ex=(expiry or self.expiry)
set_user_data_expiry(ch, email, user_data, ex, t2) ==
    [e \in DOMAIN ch \cup {email} |->
        IF e = email
        THEN [data |-> json_dumps(user_data),
              expires |-> t2 + 2 * (IF ex = NoExpiry THEN expiry ELSE ex)]
        ELSE ch[e]]

\* set_user_data(user_email, user_data): the default expiry
set_user_data(ch, email, user_data, t2) == set_user_data_expiry(ch, email, user_data, NoExpiry, t2)

\* get_user_data: <<the dict>>, <<>> for None
get_user_data(ch, email, t2) ==
    IF get_user_data_hit(ch, email, t2) THEN <<json_loads(ch[email].data)>> ELSE <<>>

\* Mutant: the whole cache is flushed.
invalidate_user_data_flush(ch, email) == EmptyCache

invalidate_user_data(ch, email) == [e \in DOMAIN ch \ {email} |-> ch[e]]

\* Redis drops the keys whose expiry has passed.
ExpireKeys(ch, t2) == [e \in {k \in DOMAIN ch : t2 < ch[k].expires} |-> ch[e]]

-----------------------------------------------------------------------------
(* User directory (UserRepository) *)

\* select(User).where(User.email == email).scalar_one_or_none(): the id, 0 for None
get_by_email(us, email) ==
    IF \E i \in 1..Len(us) : us[i].email = email
    THEN CHOOSE i \in 1..Len(us) : us[i].email = email
    ELSE 0

\* The creation timestamp the database assigns to row id: an opaque datetime.
CreatedAt(id) == <<"created", id>>

\* The row UserRepository.create inserts: email and hash from the request,
\* every other column from the table's defaults.  The table is declared
\* outside src/ and nothing says which role its column defaults to: `role`
\* is that default, one of UserRole (the 201 answer of a registration
\* validates as UserResponse, whose role is a UserRole).
NewUser(us, email, hashed_password, t, role) ==
    [id |-> Len(us) + 1, email |-> email, hashed_password |-> hashed_password,
     is_verified |-> FALSE, role |-> role, avatar_url |-> NoAvatar,
     created_at |-> CreatedAt(Len(us) + 1)]

create(us, email, password, salt, t, role) ==
    Append(us, NewUser(us, email, get_password_hash_at(password, salt), t, role))


\* db.commit() flushes the session: the UPDATE of a loaded object sets the
\* columns whose value differs from the one loaded and leaves the others as
\* the table holds them.
flushed(row, loaded, object) ==
    [k \in DOMAIN row |-> IF object[k] # loaded[k] THEN object[k] ELSE row[k]]

\* The users table after the session's changes to `loaded` are committed
commit_user(us, loaded, user) ==
    [us EXCEPT ![loaded.id] = flushed(us[loaded.id], loaded, user)]

\* UserRepository.verify_token lines 52-59: the subject of the token, NoSub for None
verify_token_subject(token, t) ==
    IF ~jwt_decode_ok(token, t) THEN NoSub ELSE token.sub

\* Mutant: the flag is never written.
verify_token_row_no_update(user) == user

\* Mutant: redeeming a verification token flips the flag.
verify_token_row_toggle(user) == [user EXCEPT !.is_verified = ~user.is_verified]

\* UserRepository.verify_token lines 63-64: the user as the session holds it
verify_token_row(user) ==
    IF ~user.is_verified THEN [user EXCEPT !.is_verified = TRUE] ELSE user

\* Mutant: the password is not verified against the stored hash.
authenticate_user_any_password(us, email, password) == get_by_email(us, email)

\* UserRepository.authenticate_user: the id of the user returned, 0 for None
authenticate_user(us, email, password) ==
    LET uid == get_by_email(us, email) IN
    IF uid = 0 THEN 0
    ELSE IF ~verify_password(password, us[uid].hashed_password) THEN 0
    ELSE uid

\* UserRepository.update_avatar line 99: user.avatar_url = avatar_url
update_avatar_user(user, avatar_url) == [user EXCEPT !.avatar_url = avatar_url]

\* UserResponse(**cached_user): the public shape, created_at parsed back
UserResponse(data) ==
    [id |-> data.id, email |-> data.email, created_at |-> fromisoformat(data.created_at),
     avatar_url |-> data.avatar_url, role |-> data.role]

\* The user_data dict get_current_user stores on a cache miss
user_data_of(user) ==
    [id |-> user.id, email |-> user.email, created_at |-> isoformat(user.created_at),
     avatar_url |-> user.avatar_url, role |-> user.role]

\* The users table holds each email once (the unique constraint of the table).
unique_email_violation(us, email) == get_by_email(us, email) # 0

-----------------------------------------------------------------------------
(* Contacts: schemas/contacts.py, repository/contacts.py,                  *)
(* services/contacts.py, routes/contacts.py.  Text columns are sequences   *)
(* of characters; birth_date is a day number.  The table assigns ids from  *)
(* a sequence and never reuses one.                                        *)

\* The ContactCreate payloads of the model
ContactCreate ==
    {[first_name |-> <<"A", "n">>, last_name |-> <<"B">>, email |-> <<"a", "@", "x">>,
      phone_number |-> "55501", birth_date |-> 3, additional_info |-> "null"],
     [first_name |-> <<"b", "o">>, last_name |-> <<"N">>, email |-> <<"b", "@", "x">>,
      phone_number |-> "55502", birth_date |-> -9000, additional_info |-> "note"]}

ContactIds == 1..MaxContacts

\* The query strings of GET /contacts/search
Queries == {<<"a">>, <<"z">>, <<"_", "o">>}

Lower(c) == CASE c = "A" -> "a" [] c = "B" -> "b" [] c = "N" -> "n" [] OTHER -> c

\* SQL LIKE: % matches any run of characters, _ any one character
RECURSIVE like(_, _)
like(pattern, s) ==
    IF pattern = <<>> THEN s = <<>>
    ELSE IF Head(pattern) = "%"
         THEN like(Tail(pattern), s) \/ (s # <<>> /\ like(pattern, Tail(s)))
         ELSE /\ s # <<>>
              /\ (Head(pattern) = "_" \/ Lower(Head(pattern)) = Lower(Head(s)))
              /\ like(Tail(pattern), Tail(s))

\* column.ilike(f"%{query}%")
ilike(s, query) == like(<<"%">> \o query \o <<"%">>, s)

\* datetime.today().date(), as a day number
Today(t) == t \div 86400

\* ContactService.create_contact: Contact(**contact_data.model_dump(), user_id=user.id)
\* and ContactRepository.create; the table assigns the id.
new_contact(contact_data, user, seq) ==
    [id |-> seq + 1, user_id |-> user.id,
     first_name |-> contact_data.first_name, last_name |-> contact_data.last_name,
     email |-> contact_data.email, phone_number |-> contact_data.phone_number,
     birth_date |-> contact_data.birth_date,
     additional_info |-> contact_data.additional_info]

\* Mutant: every user's contacts are listed.
get_all_unscoped(cs, user) == cs

get_all(cs, user) == {c \in cs : c.user_id = user.id}

\* Mutant: the owner is not part of the where clause.
get_by_id_any_owner(cs, contact_id, user) == {c \in cs : c.id = contact_id}

\* scalar_one_or_none(): the set of the row found, {} for None
get_by_id(cs, contact_id, user) ==
    {c \in cs : c.id = contact_id /\ c.user_id = user.id}


\* Mutant: the email column is not replaced.
update_fields_without_email(contact, updated_data) ==
    [contact EXCEPT !.first_name = updated_data.first_name,
                    !.last_name = updated_data.last_name,
                    !.phone_number = updated_data.phone_number,
                    !.birth_date = updated_data.birth_date,
                    !.additional_info = updated_data.additional_info]

\* for key, value in updated_data.dict().items(): setattr(contact, key, value)
update_fields(contact, updated_data) ==
    [contact EXCEPT !.first_name = updated_data.first_name,
                    !.last_name = updated_data.last_name,
                    !.email = updated_data.email,
                    !.phone_number = updated_data.phone_number,
                    !.birth_date = updated_data.birth_date,
                    !.additional_info = updated_data.additional_info]

\* The row of the table with the primary key of a loaded object: {} when gone
row_of(cs, loaded) == {c \in cs : c.id = loaded.id}

\* The contacts table after the session's changes to `loaded` are committed
commit_contact(cs, loaded, contact) ==
    {IF c.id = loaded.id THEN flushed(c, loaded, contact) ELSE c : c \in cs}

\* Mutant: the row is returned but stays in the table.
delete_nothing(cs, loaded) == cs

\* db.delete(contact) and db.commit(): DELETE by the primary key
delete(cs, loaded) == cs \ row_of(cs, loaded)

search_contacts(cs, query, user) ==
    {c \in cs : /\ c.user_id = user.id
                /\ \/ ilike(c.first_name, query)
                   \/ ilike(c.last_name, query)
                   \/ ilike(c.email, query)}

\* The statement get_upcoming_birthdays builds from today's date, executed
get_upcoming_birthdays(cs, user, today) ==
    LET next_week == today + 7 IN
    {c \in cs : /\ c.user_id = user.id
                /\ c.birth_date >= today /\ c.birth_date <= next_week}

-----------------------------------------------------------------------------
(* Requests.  A request is a record: what it was sent, what it has learnt   *)
(* so far, the await it is suspended at (`stage`) and, once `stage` is     *)
(* "done", its response.                                                   *)

NoResponse ==
    [op |-> "none", stage |-> "done", status |-> 0, email |-> NoSub, password |-> <<>>,
     sub |-> NoSub, ttype |-> NoType,
     decoded |-> FALSE, existing |-> FALSE, path |-> "none", kind |-> "none",
     ret |-> <<>>, cache_read |-> FALSE, db_read |-> FALSE, cache_write |-> FALSE,
     mail |-> <<>>, body |-> <<>>, uploaded |-> FALSE,
     caller |-> 0, contact_id |-> 0, data |-> <<>>, query |-> <<>>, rows |-> {},
     allowed |-> {}, digest |-> <<>>, ok |-> FALSE, role |-> "none", today |-> 0]

\* What a handler learns of the token it was given: the claims when it decodes.
TokenFacts(r, token, t) ==
    IF jwt_decode_ok(token, t)
    THEN [r EXCEPT !.sub = token.sub, !.ttype = token.type, !.decoded = TRUE]
    ELSE r

\* What a step reads and writes: the two tables, Redis, the limiter, the clock.
Stores ==
    [users |-> users, cache |-> cache, contacts |-> contacts, contact_seq |-> contact_seq,
     limiter |-> limiter, now |-> now, fraction |-> fraction,
     role_default |-> role_default]

\* The outcome of a step: the stores afterwards and the request, answered ...
Respond(st, r) == [st |-> st, r |-> [r EXCEPT !.stage = "done"]]

\* ... or suspended at its next await.
Suspend(st, stage, r) == [st |-> st, r |-> [r EXCEPT !.stage = stage]]

-----------------------------------------------------------------------------
(* Rate limiter: slowapi's Limiter(key_func=get_remote_address) over the   *)
(* fixed-window strategy of `limits` with its memory storage.  Every       *)
(* request of the model comes from one address.  A window opens with a     *)
(* route's first counted request and is dropped when its time is over;     *)
(* `reset` is that instant in half seconds.                                *)

\* @limiter.limit("5/minute") on GET /users/me
GetMeLimit == [amount |-> 5, seconds |-> 60]

\* @limiter.limit("3/hour") on POST /users/password-reset-request
RequestPasswordResetLimit == [amount |-> 3, seconds |-> 3600]

NoWindow == [hits |-> 0, reset |-> 0]

NoLimits == [me |-> NoWindow, reset_request |-> NoWindow]

\* time.time(), in half seconds
HalfSeconds(st) == 2 * st.now + st.fraction

\* FixedWindowRateLimiter.hit / MemoryStorage.incr: the request is counted in
\* the open window, or opens one.  Counts beyond amount + 1 are not told apart.
window_hit(w, limit, t2) ==
    IF w.hits = 0 \/ w.reset <= t2
    THEN [hits |-> 1, reset |-> t2 + 2 * limit.seconds]
    ELSE [w EXCEPT !.hits = IF w.hits > limit.amount THEN w.hits ELSE w.hits + 1]

\* The storage's timer drops the windows whose time is over.
ExpireWindows(lim, t2) ==
    [k \in DOMAIN lim |-> IF lim[k].reset <= t2 THEN NoWindow ELSE lim[k]]

\* main.py rate_limit_handler: the answer to a request over the limit
rate_limit_handler(st, r) ==
    Respond(st, [r EXCEPT !.status = 429,
                          !.body = <<"Rate limit exceeded. Please try again later.">>])

-----------------------------------------------------------------------------
(* POST /users/register: routes/users.py register_user and                 *)
(* UserRepository.create.  A commit that would store an email a second     *)
(* time fails with IntegrityError, which neither of them catches.          *)

\* Mutant: the user is created without the lookup of the email.
register_user_begin_unchecked(st, email, password, role) ==
    Suspend(st, "commit",
            [NoResponse EXCEPT !.op = "register", !.email = email, !.password = password,
                               !.role = role])

\* Lines 121-125: await get_by_email, the 409 answer
register_user_begin(st, email, password, role) ==
    LET r == [NoResponse EXCEPT !.op = "register", !.email = email, !.password = password,
                                !.role = role]
    IN  IF get_by_email(st.users, email) # 0
        THEN Respond(st, [r EXCEPT !.status = 409, !.existing = TRUE])
        ELSE Suspend(st, "commit", r)

\* UserRepository.create up to await db.commit(): the password is hashed, the
\* row is inserted
register_user_commit(st, r, salt) ==
    IF unique_email_violation(st.users, r.email)
    THEN Respond(st, [r EXCEPT !.status = 500, !.existing = TRUE])
    ELSE LET us2 == create(st.users, r.email, r.password, salt, st.now, st.role_default) IN
         Suspend([st EXCEPT !.users = us2], "refresh", [r EXCEPT !.ret = <<us2[Len(us2)]>>])

\* await db.refresh(new_user) and lines 127-130: the row is read again, the
\* verification token is made, the mail is scheduled, 201
register_user_refresh(st, r) ==
    Respond(st, [r EXCEPT !.status = 201,
                          !.ret = <<st.users[r.ret[1].id]>>,
                          !.mail = <<[kind |-> "verification", to |-> r.email,
                                      token |-> create_access_token(r.email, NoType, st.now)]>>])

(* GET /users/verify: routes/users.py verify_email and                     *)
(* UserRepository.verify_token                                             *)

\* verify_token lines 61-67: the token is decoded; None, and 400, on JWTError
\* or without a sub; else the handler awaits get_by_email
verify_email_begin(st, token) ==
    LET r == [TokenFacts(NoResponse, token, st.now) EXCEPT !.op = "verify"] IN
    IF verify_token_subject(token, st.now) = NoSub
    THEN Respond(st, [r EXCEPT !.status = 400])
    ELSE Suspend(st, "get_by_email", r)

\* await get_by_email: the user is read; 400 for None, 200 for a user already
\* verified; else the flag is set on the loaded row
verify_email_lookup(st, r) ==
    LET uid == get_by_email(st.users, r.sub) IN
    IF uid = 0 THEN Respond(st, [r EXCEPT !.status = 400, !.db_read = TRUE])
    ELSE IF verify_token_row(st.users[uid]) = st.users[uid]
         THEN Respond(st, [r EXCEPT !.status = 200, !.db_read = TRUE, !.ret = <<st.users[uid]>>])
         ELSE Suspend(st, "commit", [r EXCEPT !.db_read = TRUE, !.ret = <<st.users[uid]>>])

\* await db.commit(): the flag is written
verify_email_commit(st, r) ==
    Suspend([st EXCEPT !.users = commit_user(st.users, r.ret[1], verify_token_row(r.ret[1]))],
            "refresh", r)

\* await db.refresh(user), and the route's answer
verify_email_refresh(st, r) ==
    Respond(st, [r EXCEPT !.status = 200, !.ret = <<st.users[r.ret[1].id]>>])

(* POST /users/login: routes/users.py login.  authenticate_user awaits the *)
(* directory once; the rest is the handler's own code.                     *)

LoginBody(st, uid) ==
    <<[access_token |-> create_access_token(st.users[uid].email, NoType, st.now),
       token_type |-> "bearer"]>>

\* Mutant: a token is issued without looking at is_verified.
login_unverified(st, email, password) ==
    LET uid == authenticate_user(st.users, email, password)
        r == [NoResponse EXCEPT !.op = "login", !.email = email, !.password = password]
    IN  IF uid = 0 THEN Respond(st, [r EXCEPT !.status = 401])
        ELSE Respond(st, [r EXCEPT !.status = 200, !.body = LoginBody(st, uid)])

\* Mutant: a login drops the cache entry of the account.
login_drops_cache_entry(st, email, password) ==
    LET uid == authenticate_user(st.users, email, password)
        r == [NoResponse EXCEPT !.op = "login", !.email = email, !.password = password]
        st1 == [st EXCEPT !.cache = invalidate_user_data(st.cache, email)]
    IN  IF uid = 0 THEN Respond(st1, [r EXCEPT !.status = 401])
        ELSE IF ~st.users[uid].is_verified THEN Respond(st1, [r EXCEPT !.status = 403])
        ELSE Respond(st1, [r EXCEPT !.status = 200, !.body = LoginBody(st, uid)])

login(st, email, password) ==
    LET uid == authenticate_user(st.users, email, password)
        r == [NoResponse EXCEPT !.op = "login", !.email = email, !.password = password]
    IN  IF uid = 0 THEN Respond(st, [r EXCEPT !.status = 401])
        ELSE IF ~st.users[uid].is_verified THEN Respond(st, [r EXCEPT !.status = 403])
        ELSE Respond(st, [r EXCEPT !.status = 200, !.body = LoginBody(st, uid)])

(* POST /users/password-reset-request: routes/users.py request_password_reset. *)
(* The limiter counts the request before the handler's body runs.  Line 210 *)
(* names UserRepository.create_password_reset_token, which the class does  *)
(* not define (repository/users.py defines get_by_email, create,           *)
(* verify_token, authenticate_user and update_avatar): the attribute       *)
(* lookup raises AttributeError before anything is awaited, and the        *)
(* request ends in an unhandled error (500).                               *)

request_password_reset(st, email) ==
    LET w == window_hit(st.limiter.reset_request, RequestPasswordResetLimit, HalfSeconds(st))
        st1 == [st EXCEPT !.limiter.reset_request = w]
        r == [NoResponse EXCEPT !.op = "reset_request", !.email = email]
    IN  IF w.hits > RequestPasswordResetLimit.amount THEN rate_limit_handler(st1, r)
        ELSE Respond(st1, [r EXCEPT !.status = 500])

(* POST /users/reset-password: routes/users.py reset_password.  Line 239   *)
(* names UserRepository.reset_password, which the class does not define    *)
(* either: AttributeError, 500, with the token not looked at.  The body is *)
(* a PasswordReset (schemas/users.py 117-120): a new_password shorter than *)
(* 8 characters is answered 422 before the handler runs.                    *)

reset_password(st, token, new_password) ==
    LET r == [NoResponse EXCEPT !.op = "reset", !.data = <<token>>, !.password = new_password]
    IN  IF Len(new_password) < 8 THEN Respond(st, [r EXCEPT !.status = 422])
        ELSE Respond(st, [r EXCEPT !.status = 500])
-----------------------------------------------------------------------------
(* The handlers that depend on get_current_user, from the point where the  *)
(* resolver has returned the user (r.ret, an ORM row after a cache miss, a *)
(* UserResponse after a hit).                                              *)

(* GET /users/me: routes/users.py get_me.  slowapi wraps the handler: the  *)
(* request is counted once its dependencies are resolved.                  *)

get_me(st, r) ==
    LET w == window_hit(st.limiter.me, GetMeLimit, HalfSeconds(st))
        st1 == [st EXCEPT !.limiter.me = w]
    IN  IF w.hits > GetMeLimit.amount
        THEN rate_limit_handler(st1, r)
        ELSE Respond(st1, [r EXCEPT !.status = 200])

(* POST /users/avatar: routes/users.py upload_avatar.  UserRepository      *)
(* .update_avatar adds current_user to the session: an ORM row (cache      *)
(* miss) is updated; a UserResponse (cache hit) is not a mapped instance   *)
(* and db.add raises, which the route does not handle (500).               *)

\* routes/users.py line 67
avatar_change_forbidden(user) == user.role # ADMIN /\ user.avatar_url # NoAvatar

\* Lines 67-79 and update_avatar up to await db.commit(): the check, the
\* upload to cloudinary, db.add
upload_avatar(st, r) ==
    IF avatar_change_forbidden(r.ret[1]) THEN Respond(st, [r EXCEPT !.status = 403])
    ELSE IF r.kind # "orm" THEN Respond(st, [r EXCEPT !.status = 500, !.uploaded = TRUE])
    ELSE Suspend(st, "commit", [r EXCEPT !.uploaded = TRUE])

\* await db.commit(): the avatar_url cloudinary answered with (secure_url) is
\* written
upload_avatar_commit(st, r, url) ==
    Suspend([st EXCEPT !.users = commit_user(st.users, r.ret[1],
                                             update_avatar_user(r.ret[1], url))],
            "refresh", r)

\* await db.refresh(user), and the route's answer
upload_avatar_refresh(st, r) ==
    Respond(st, [r EXCEPT !.status = 200, !.ret = <<st.users[r.ret[1].id]>>])

(* The role guard: services/auth.py RoleChecker.check_role *)

\* admin_only = RoleChecker([UserRole.ADMIN])
admin_only == {ADMIN}

\* The allowed_roles lists the guard is built with
RoleLists == {admin_only, {USER}, {USER, ADMIN}, {}}

\* Mutant: an administrator passes every guard.
check_role_status_admin_passes(user, allowed_roles) ==
    IF user.role # ADMIN /\ user.role \notin allowed_roles THEN 403 ELSE 200

check_role_status(user, allowed_roles) ==
    IF user.role \notin allowed_roles THEN 403 ELSE 200

\* A request to a route that depends on RoleChecker(allowed_roles)
check_role(st, r) ==
    LET status == check_role_status(r.ret[1], r.allowed) IN
    Respond(st, [r EXCEPT !.status = status, !.ret = IF status = 200 THEN r.ret ELSE <<>>])

(* routes/contacts.py, services/contacts.py, repository/contacts.py *)

\* The handler calls the service, which awaits the repository's first statement.
\* Of the user the repository reads the id; get_upcoming_birthdays takes
\* today's date before it awaits its statement.
contact_route(st, r) ==
    LET r1 == [r EXCEPT !.caller = r.ret[1].id, !.ret = <<>>] IN
    CASE r.op = "contact_create" -> Suspend(st, "commit", r1)
      [] r.op \in {"contact_update", "contact_delete"} -> Suspend(st, "get_by_id", r1)
      [] r.op = "contact_birthdays" -> Suspend(st, "execute", [r1 EXCEPT !.today = Today(st.now)])
      [] OTHER -> Suspend(st, "execute", r1)

Caller(r) == [id |-> r.caller]

\* ContactRepository.create, await db.commit(): the row is inserted
create_contact_commit(st, r) ==
    LET row == new_contact(r.data[1], Caller(r), st.contact_seq) IN
    Suspend([st EXCEPT !.contacts = st.contacts \cup {row},
                       !.contact_seq = st.contact_seq + 1],
            "refresh", [r EXCEPT !.contact_id = row.id, !.rows = {row}])

\* await db.refresh(contact): the row is read again by its primary key; a row
\* that is gone raises InvalidRequestError, which no route handles
contact_refresh(st, r) ==
    LET row == {c \in st.contacts : c.id = r.contact_id} IN
    IF row = {} THEN Respond(st, [r EXCEPT !.status = 500, !.rows = {}])
    ELSE Respond(st, [r EXCEPT !.status = IF r.op = "contact_create" THEN 201 ELSE 200,
                               !.rows = row])

\* The one statement of get_all, search_contacts, get_upcoming_birthdays and
\* get_by_id, and the route's answer
contact_execute(st, r) ==
    CASE r.op = "contact_list" ->
            Respond(st, [r EXCEPT !.status = 200, !.rows = get_all(st.contacts, Caller(r))])
      [] r.op = "contact_search" ->
            Respond(st, [r EXCEPT !.status = 200,
                                  !.rows = search_contacts(st.contacts, r.query, Caller(r))])
      [] r.op = "contact_birthdays" ->
            Respond(st, [r EXCEPT !.status = 200,
                                  !.rows = get_upcoming_birthdays(st.contacts, Caller(r), r.today)])
      [] OTHER ->
            LET contact == get_by_id(st.contacts, r.contact_id, Caller(r)) IN
            IF contact = {} THEN Respond(st, [r EXCEPT !.status = 404])
            ELSE Respond(st, [r EXCEPT !.status = 200, !.rows = contact])

\* ContactRepository.update and delete, await get_by_id: 404 for None; the
\* row found is held by the session (delete marks it, which reads nothing)
contact_get_by_id(st, r) ==
    LET contact == get_by_id(st.contacts, r.contact_id, Caller(r)) IN
    IF contact = {} THEN Respond(st, [r EXCEPT !.status = 404])
    ELSE Suspend(st, "commit", [r EXCEPT !.rows = contact])

\* ContactRepository.update, await db.commit(): the payload's fields are set
\* and flushed.  An UPDATE that finds its row gone raises StaleDataError,
\* which no route handles.
update_contact_commit(st, r) ==
    LET loaded == CHOOSE c \in r.rows : TRUE
        contact == update_fields(loaded, r.data[1])
    IN  IF contact # loaded /\ row_of(st.contacts, loaded) = {}
        THEN Respond(st, [r EXCEPT !.status = 500, !.rows = {}])
        ELSE Suspend([st EXCEPT !.contacts = commit_contact(st.contacts, loaded, contact)],
                     "refresh", r)

\* ContactRepository.delete, await db.commit(), and the route's answer.  A
\* DELETE that finds its row gone only warns.
delete_contact_commit(st, r) ==
    LET loaded == CHOOSE c \in r.rows : TRUE IN
    Respond([st EXCEPT !.contacts = delete(st.contacts, loaded)], [r EXCEPT !.status = 204])

\* The handler get_current_user returned to
endpoint(st, r) ==
    CASE r.op = "me" -> get_me(st, r)
      [] r.op = "avatar" -> upload_avatar(st, r)
      [] r.op = "guard" -> check_role(st, r)
      [] OTHER -> contact_route(st, r)

-----------------------------------------------------------------------------
(* Session resolver: services/auth.py get_current_user.  The request       *)
(* records the path taken ("reject", "hit", "miss"), the object returned   *)
(* (kind "orm": a row of the table, after a miss; kind "response": a       *)
(* UserResponse, after a hit) and which stores were touched.               *)

\* Mutant: the purpose of the token is not looked at.
token_refused_any_purpose(token, t) ==
    \/ ~jwt_decode_ok(token, t)
    \/ token.sub = NoSub

\* Lines 95-109: the token is refused before any lookup
token_refused(token, t) ==
    \/ ~jwt_decode_ok(token, t)
    \/ token.sub = NoSub
    \/ token_type_or_access(token) = "password_reset"

\* Mutant: the cache is read before the token is judged.
get_current_user_begin_lookup_first(st, r0, token) ==
    LET r == TokenFacts(r0, token, st.now) IN
    IF token_refused(token, st.now)
    THEN Respond(st, [r EXCEPT !.status = 401, !.path = "reject", !.cache_read = TRUE])
    ELSE Suspend(st, "get_user_data", r)

\* Lines 95-109: the token is judged; a token that passes brings the request
\* to line 112, await user_cache.get_user_data
get_current_user_begin(st, r0, token) ==
    LET r == TokenFacts(r0, token, st.now) IN
    IF token_refused(token, st.now)
    THEN Respond(st, [r EXCEPT !.status = 401, !.path = "reject"])
    ELSE Suspend(st, "get_user_data", r)

\* Mutant: the directory is read and the cache rewritten on every call.
get_current_user_cached_always_reads(st, r) ==
    Suspend(st, "get_by_email",
            [r EXCEPT !.cache_read = TRUE,
                      !.path = IF get_user_data(st.cache, r.sub, HalfSeconds(st)) # <<>>
                               THEN "hit" ELSE "miss"])

\* Lines 112-116: the cache answers; a hit returns UserResponse(**cached_user)
\* to the handler, a miss goes on to line 119, await get_by_email
get_current_user_cached(st, r) ==
    LET cached_user == get_user_data(st.cache, r.sub, HalfSeconds(st)) IN
    IF cached_user # <<>>
    THEN endpoint(st, [r EXCEPT !.cache_read = TRUE, !.path = "hit", !.kind = "response",
                                !.ret = <<UserResponse(cached_user[1])>>])
    ELSE Suspend(st, "get_by_email", [r EXCEPT !.cache_read = TRUE, !.path = "miss"])

\* Lines 119-121: await UserRepository.get_by_email; 401 for None
get_current_user_lookup(st, r) ==
    LET uid == get_by_email(st.users, r.sub) IN
    IF uid = 0 THEN Respond(st, [r EXCEPT !.status = 401, !.db_read = TRUE])
    ELSE Suspend(st, "set_user_data",
                 [r EXCEPT !.db_read = TRUE, !.kind = "orm", !.ret = <<st.users[uid]>>])

\* Lines 122-133: await user_cache.set_user_data with the snapshot of the row
\* that was read; the row is returned to the handler
get_current_user_store(st, r) ==
    endpoint([st EXCEPT !.cache = set_user_data(st.cache, r.sub, user_data_of(r.ret[1]),
                                                HalfSeconds(st))],
             [r EXCEPT !.cache_write = TRUE])

-----------------------------------------------------------------------------
(* Initial state: a directory seeded with one administrator, an empty      *)
(* cache, no request in flight; the role column's default is either role.  *)

AdminSeed ==
    [id |-> 1, email |-> "alice", hashed_password |-> get_password_hash_at(<<"p", "w", "1">>, 1),
     is_verified |-> TRUE, role |-> ADMIN, avatar_url |-> NoAvatar,
     created_at |-> CreatedAt(1)]

\* us: for each default of the role column, the directories to start from
InitWith(us) ==
    /\ role_default \in UserRole
    /\ users \in us[role_default]
    /\ cache = EmptyCache
    /\ now = 0
    /\ pending = EmptyBag
    /\ contacts = {}
    /\ contact_seq = 0
    /\ fraction = 0
    /\ held = <<>>
    /\ digests = <<>>
    /\ limiter = NoLimits
    /\ last = NoResponse

Init == InitWith([role \in UserRole |-> {<<AdminSeed>>}])

\* The directory with or without bob
InitToken ==
    InitWith([role \in UserRole |->
                {<<AdminSeed>>, create(<<AdminSeed>>, "bob", <<"p", "w", "1">>, 1, 0, role)}])

\* The clock advances by `seconds`; Redis and the limiter drop what has
\* expired.  Requests in flight stay suspended.
Advance(seconds) ==
    /\ now' = now + seconds
    /\ cache' = ExpireKeys(cache, 2 * now' + fraction)
    /\ limiter' = ExpireWindows(limiter, 2 * now' + fraction)
    /\ last' = [NoResponse EXCEPT !.op = "tick"]
    /\ UNCHANGED <<role_default, fraction, held, digests, contacts, contact_seq, users, pending>>

Tick == now < MaxTicks * DefaultExpiresDelta /\ Advance(DefaultExpiresDelta)

-----------------------------------------------------------------------------
(* Steps.  A request starts with its first step and, when that step        *)
(* suspends it, joins `pending`; a later step takes it from there.  At     *)
(* most MaxPending requests are in flight.                                 *)

Request(op) == [NoResponse EXCEPT !.op = op]

Waiting(op, stage) == {p \in BagToSet(pending) : p.op = op /\ p.stage = stage}

Apply(was, out) ==
    /\ users' = out.st.users
    /\ cache' = out.st.cache
    /\ contacts' = out.st.contacts
    /\ contact_seq' = out.st.contact_seq
    /\ limiter' = out.st.limiter
    /\ pending' = (pending (-) was)
                    (+) (IF out.r.stage = "done" THEN EmptyBag ELSE SetToBag({out.r}))
    /\ last' = out.r
    /\ UNCHANGED <<role_default, now, fraction, held, digests>>

Start(out) ==
    /\ out.r.stage = "done" \/ BagCardinality(pending) < MaxPending
    /\ Apply(EmptyBag, out)

Resume(p, out) == Apply(SetToBag({p}), out)

\* The awaits of get_current_user in a request of route `op`
Resolve(op) ==
    \/ \E p \in Waiting(op, "get_user_data") : Resume(p, get_current_user_cached(Stores, p))
    \/ \E p \in Waiting(op, "get_by_email") : Resume(p, get_current_user_lookup(Stores, p))
    \/ \E p \in Waiting(op, "set_user_data") : Resume(p, get_current_user_store(Stores, p))

\* The bearer tokens of the model's two users at instant t, and an expired one
ContactTokens(t) ==
    {create_access_token(e, NoType, t) : e \in Emails}
    \cup {[sub |-> "bob", type |-> NoType, exp |-> t - DefaultExpiresDelta, sig |-> TRUE]}

\* Those, and tokens of bob for another purpose, forged, or without a subject
SessionTokens(t) ==
    ContactTokens(t)
    \cup {[sub |-> "bob", type |-> "refresh", exp |-> t + DefaultExpiresDelta, sig |-> TRUE],
          [sub |-> "bob", type |-> "password_reset", exp |-> t + DefaultExpiresDelta, sig |-> TRUE],
          [sub |-> "bob", type |-> NoType, exp |-> t + DefaultExpiresDelta, sig |-> FALSE],
          [sub |-> NoSub, type |-> NoType, exp |-> t + DefaultExpiresDelta, sig |-> TRUE]}

(* The routes of /users *)

RegisterOf(emails, passwords, roles, salts) ==
    \/ \E email \in emails, password \in passwords, role \in roles :
          Start(register_user_begin(Stores, email, password, role))
    \/ \E p \in Waiting("register", "commit"), salt \in salts :
          Resume(p, register_user_commit(Stores, p, salt))
    \/ \E p \in Waiting("register", "refresh") : Resume(p, register_user_refresh(Stores, p))

Register == RegisterOf(Emails, Passwords, UserRole, Salts)

\* Registration with the role of the schema's default, one password, one salt
AccountRegister == RegisterOf(Emails, {<<"p", "w", "1">>}, {USER}, {1})

VerifyEmailOf(tokens) ==
    \/ \E token \in tokens : Start(verify_email_begin(Stores, token))
    \/ \E p \in Waiting("verify", "get_by_email") : Resume(p, verify_email_lookup(Stores, p))
    \/ \E p \in Waiting("verify", "commit") : Resume(p, verify_email_commit(Stores, p))
    \/ \E p \in Waiting("verify", "refresh") : Resume(p, verify_email_refresh(Stores, p))

VerifyEmail == VerifyEmailOf(SessionTokens(now))

Login == \E email \in Emails, password \in Passwords : Start(login(Stores, email, password))

RequestPasswordReset == \E email \in Emails : Start(request_password_reset(Stores, email))

\* The tokens presented to POST /users/reset-password at instant t
ResetTokens(t) ==
    {create_access_token(e, "password_reset", t) : e \in Emails}
    \cup {create_access_token("bob", "access", t), create_access_token("bob", NoType, t),
          [sub |-> "bob", type |-> "password_reset", exp |-> t - DefaultExpiresDelta, sig |-> TRUE],
          [sub |-> "bob", type |-> "password_reset", exp |-> t + DefaultExpiresDelta, sig |-> FALSE]}

ResetPassword ==
    \E token \in ResetTokens(now), new_password \in NewPasswords :
        Start(reset_password(Stores, token, new_password))

GetMeOf(tokens) ==
    \/ \E token \in tokens : Start(get_current_user_begin(Stores, Request("me"), token))
    \/ Resolve("me")

GetMe == GetMeOf(SessionTokens(now))

\* cloudinary.uploader.upload answers with the stored image's secure_url.
UploadAvatarOf(tokens, urls) ==
    \/ \E token \in tokens : Start(get_current_user_begin(Stores, Request("avatar"), token))
    \/ Resolve("avatar")
    \/ \E p \in Waiting("avatar", "commit"), url \in urls :
          Resume(p, upload_avatar_commit(Stores, p, url))
    \/ \E p \in Waiting("avatar", "refresh") : Resume(p, upload_avatar_refresh(Stores, p))

UploadAvatar == UploadAvatarOf(ContactTokens(now), Urls)

\* A route that depends on RoleChecker(allowed_roles)
CheckRole ==
    \/ \E token \in ContactTokens(now), allowed_roles \in RoleLists :
          Start(get_current_user_begin(Stores, [Request("guard") EXCEPT !.allowed = allowed_roles],
                                       token))
    \/ Resolve("guard")

(* The routes of /contacts *)

\* The requests in flight that will insert a contact
Creating == BagCardinality([p \in Waiting("contact_create", "get_user_data")
                                  \cup Waiting("contact_create", "get_by_email")
                                  \cup Waiting("contact_create", "set_user_data")
                                  \cup Waiting("contact_create", "commit") |-> pending[p]])

CreateContactOf(tokens, payloads, max) ==
    \/ /\ contact_seq + Creating < max
       /\ \E token \in tokens, contact \in payloads :
             Start(get_current_user_begin(
                       Stores, [Request("contact_create") EXCEPT !.data = <<contact>>], token))
    \/ Resolve("contact_create")
    \/ \E p \in Waiting("contact_create", "commit") : Resume(p, create_contact_commit(Stores, p))
    \/ \E p \in Waiting("contact_create", "refresh") : Resume(p, contact_refresh(Stores, p))

\* GET /contacts/, /contacts/search, /contacts/birthdays and /contacts/{id}
ReadContactsOf(op, tokens, contact_ids, queries) ==
    \/ \E token \in tokens, contact_id \in contact_ids, query \in queries :
          Start(get_current_user_begin(
                    Stores, [Request(op) EXCEPT !.contact_id = contact_id, !.query = query],
                    token))
    \/ Resolve(op)
    \/ \E p \in Waiting(op, "execute") : Resume(p, contact_execute(Stores, p))

UpdateContactOf(tokens, contact_ids, payloads) ==
    \/ \E token \in tokens, contact_id \in contact_ids, updated_data \in payloads :
          Start(get_current_user_begin(
                    Stores, [Request("contact_update") EXCEPT !.contact_id = contact_id,
                                                              !.data = <<updated_data>>],
                    token))
    \/ Resolve("contact_update")
    \/ \E p \in Waiting("contact_update", "get_by_id") : Resume(p, contact_get_by_id(Stores, p))
    \/ \E p \in Waiting("contact_update", "commit") : Resume(p, update_contact_commit(Stores, p))
    \/ \E p \in Waiting("contact_update", "refresh") : Resume(p, contact_refresh(Stores, p))

DeleteContactOf(tokens, contact_ids) ==
    \/ \E token \in tokens, contact_id \in contact_ids :
          Start(get_current_user_begin(
                    Stores, [Request("contact_delete") EXCEPT !.contact_id = contact_id], token))
    \/ Resolve("contact_delete")
    \/ \E p \in Waiting("contact_delete", "get_by_id") : Resume(p, contact_get_by_id(Stores, p))
    \/ \E p \in Waiting("contact_delete", "commit") : Resume(p, delete_contact_commit(Stores, p))

\* The bearer tokens of the model's two users
UserTokens(t) == {create_access_token(e, NoType, t) : e \in Emails}

\* The payload POST /contacts/ is sent, and the one PUT /contacts/{id} is sent
CreatePayload == CHOOSE contact \in ContactCreate : contact.birth_date = 3

UpdatePayload == CHOOSE contact \in ContactCreate : contact.birth_date # 3

CreateContact == CreateContactOf(UserTokens(now), {CreatePayload}, MaxContacts)

GetContacts == ReadContactsOf("contact_list", UserTokens(now), {0}, {<<>>})

SearchContacts == ReadContactsOf("contact_search", UserTokens(now), {0}, Queries)

GetUpcomingBirthdays == ReadContactsOf("contact_birthdays", UserTokens(now), {0}, {<<>>})

GetContact == ReadContactsOf("contact_get", UserTokens(now), ContactIds, {<<>>})

UpdateContact == UpdateContactOf(UserTokens(now), ContactIds, {UpdatePayload})

DeleteContact == DeleteContactOf(UserTokens(now), ContactIds)

-----------------------------------------------------------------------------
(* The service *)

Next ==
    \/ Tick
    \/ Register
    \/ VerifyEmail
    \/ Login
    \/ RequestPasswordReset
    \/ ResetPassword
    \/ GetMe
    \/ UploadAvatar
    \/ CreateContact
    \/ GetContacts
    \/ SearchContacts
    \/ GetUpcomingBirthdays
    \/ GetContact
    \/ UpdateContact
    \/ DeleteContact

Spec == Init /\ [][Next]_vars

\* The session core: the requests that read or write the user cache and
\* the avatar, with the clock.
NextSession ==
    \/ Tick
    \/ GetMe
    \/ UploadAvatarOf({create_access_token("bob", NoType, now)}, {"url1"})

SpecSession == InitToken /\ [][NextSession]_vars

\* The account life cycle: the requests that read or write the password
\* hash and the verification flag.
NextAccount ==
    \/ Tick
    \/ AccountRegister
    \/ VerifyEmail
    \/ Login
    \/ ResetPassword

SpecAccount == Init /\ [][NextAccount]_vars

\* Requests for a reset mail, for known and unknown emails
NextResetRequest ==
    \/ Tick
    \/ AccountRegister
    \/ RequestPasswordReset

SpecResetRequest == Init /\ [][NextResetRequest]_vars

\* Registration racing with itself and with the verification of the email;
\* the directory before the first request is empty, or seeded as in Init.
NextRace ==
    \/ RegisterOf({"bob"}, Passwords, {USER}, Salts)
    \/ VerifyEmailOf({create_access_token("bob", NoType, now)})

SpecRace == InitWith([role \in UserRole |-> {<<>>, <<AdminSeed>>}]) /\ [][NextRace]_vars

\* The directory after bob registered: the contacts routes are used by two users.
InitContacts ==
    InitWith([role \in UserRole |->
                {create(<<AdminSeed>>, "bob", <<"p", "w", "1">>, 1, 0, role)}])

\* One contact at a time: created, read, updated, deleted
NextContacts ==
    \/ CreateContact
    \/ GetContact
    \/ UpdateContact
    \/ DeleteContact

SpecContacts == InitContacts /\ [][NextContacts]_vars

\* The listings: all contacts, a search, the birthdays of the week
NextListings ==
    \/ CreateContact
    \/ GetContacts
    \/ SearchContacts
    \/ GetUpcomingBirthdays

SpecListings == InitContacts /\ [][NextListings]_vars

\* Avatar uploads racing with each other
SpecAvatarRace == InitContacts /\ [][UploadAvatar]_vars

\* Every route of the API, used by bob: one password, one salt, one image,
\* one contact, and the requests one after the other (the clock stands still).
BobToken == create_access_token("bob", NoType, now)

\* At most MaxApiPending requests are in flight.
Admitted(A) == A /\ BagCardinality(pending') <= MaxApiPending

NextApi ==
    \/ Admitted(RegisterOf({"bob"}, {<<"p", "w", "1">>}, UserRole, {1}))
    \/ Admitted(VerifyEmailOf({BobToken}))
    \/ Admitted(Start(login(Stores, "bob", <<"p", "w", "1">>)))
    \/ Admitted(Start(request_password_reset(Stores, "bob")))
    \/ Admitted(\E new_password \in NewPasswords :
                    Start(reset_password(Stores, create_access_token("bob", "password_reset", now),
                                         new_password)))
    \/ Admitted(GetMeOf({BobToken}))
    \/ Admitted(UploadAvatarOf({BobToken}, {"url1"}))
    \/ Admitted(CreateContactOf({BobToken}, {CreatePayload}, MaxApiContacts))
    \/ Admitted(ReadContactsOf("contact_list", {BobToken}, {0}, {<<>>}))
    \/ Admitted(ReadContactsOf("contact_search", {BobToken}, {0}, {<<"a">>}))
    \/ Admitted(ReadContactsOf("contact_birthdays", {BobToken}, {0}, {<<>>}))
    \/ Admitted(ReadContactsOf("contact_get", {BobToken}, 1..MaxApiContacts, {<<>>}))
    \/ Admitted(UpdateContactOf({BobToken}, 1..MaxApiContacts, {UpdatePayload}))
    \/ Admitted(DeleteContactOf({BobToken}, 1..MaxApiContacts))

SpecApi == Init /\ [][NextApi]_vars

\* The role guard
NextRole ==
    \/ Tick
    \/ CheckRole

SpecRole == InitToken /\ [][NextRole]_vars

-----------------------------------------------------------------------------
(* The life of one token.  A client is issued a token by create_access_token *)
(* at some instant, keeps it and presents it to GET /users/me later.  The   *)
(* clock also advances by half seconds, which utcnow() carries and the exp  *)
(* claim does not.                                                          *)

\* Half a second passes.
TickHalfSecond ==
    /\ 2 * (now % DefaultExpiresDelta) + fraction < MaxHalfSeconds
    /\ fraction' = 1 - fraction
    /\ now' = now + fraction
    /\ cache' = ExpireKeys(cache, 2 * now' + fraction')
    /\ limiter' = ExpireWindows(limiter, 2 * now' + fraction')
    /\ last' = [NoResponse EXCEPT !.op = "tick"]
    /\ UNCHANGED <<role_default, users, pending, contacts, contact_seq, held, digests>>

\* create_access_token({"sub": sub}, expires_delta) at the current instant
issue_token(sub, expires_delta) ==
    /\ held' = <<[token |-> create_access_token_delta(sub, NoType, now, expires_delta),
                  expires_delta |-> expires_delta,
                  issued_at |-> now, issued_fraction |-> fraction]>>
    /\ last' = [NoResponse EXCEPT !.op = "issue", !.sub = sub]
    /\ UNCHANGED <<role_default, users, cache, now, pending, contacts, contact_seq, fraction, digests, limiter>>

\* The client presents the token it holds.
GetMeHeld == held # <<>> /\ GetMeOf({held[1].token})

NextToken ==
    \/ Tick
    \/ TickHalfSecond
    \/ \E sub \in Emails, expires_delta \in ExpiresDeltas : issue_token(sub, expires_delta)
    \/ GetMeHeld

SpecToken == InitToken /\ [][NextToken]_vars

-----------------------------------------------------------------------------
(* The user cache on its own: the three methods of RedisCacheManager       *)
(* called with any key and value, and the clock.                           *)

\* The user_data dicts stored in the model
CacheValues ==
    {user_data_of(AdminSeed),
     user_data_of([AdminSeed EXCEPT !.avatar_url = "url1"]),
     user_data_of(NewUser(<<AdminSeed>>, "bob", get_password_hash_at(<<"p", "w", "1">>, 1), 0, USER))}

cache_set(email, user_data, ex) ==
    /\ cache' = set_user_data_expiry(cache, email, user_data, ex, HalfSeconds(Stores))
    /\ last' = [NoResponse EXCEPT !.op = "cache_set", !.email = email, !.data = user_data]
    /\ UNCHANGED <<role_default, limiter, users, now, pending, contacts, contact_seq, fraction, held, digests>>

cache_get(email) ==
    /\ last' = [NoResponse EXCEPT !.op = "cache_get", !.email = email,
                                  !.ret = get_user_data(cache, email, HalfSeconds(Stores))]
    /\ UNCHANGED <<role_default, limiter, users, cache, now, pending, contacts, contact_seq, fraction, held, digests>>

cache_invalidate(email) ==
    /\ cache' = invalidate_user_data(cache, email)
    /\ last' = [NoResponse EXCEPT !.op = "cache_invalidate", !.email = email]
    /\ UNCHANGED <<role_default, limiter, users, now, pending, contacts, contact_seq, fraction, held, digests>>

NextCache ==
    \/ Tick
    \/ \E email \in Emails, user_data \in CacheValues, ex \in Expiries :
          cache_set(email, user_data, ex)
    \/ \E email \in Emails : cache_get(email)
    \/ \E email \in Emails : cache_invalidate(email)

SpecCache == Init /\ [][NextCache]_vars
-----------------------------------------------------------------------------
(* The credential hasher alone: get_password_hash and verify_password     *)
(* applied to plaintexts, two of which are longer than bcrypt reads and   *)
(* differ in their last character only.  `digests` is the log of the      *)
(* get_password_hash calls.  bcrypt draws a 128-bit salt at random for     *)
(* each digest; the model lets no salt be drawn twice.                     *)

Filler == [i \in 1..truncate_size |-> "a"]
LongPasswords == {Filler \o <<"x">>, Filler \o <<"y">>}
Plaintexts == Passwords \cup LongPasswords

gensalt(log) == Salts \ {log[i].hashed.salt : i \in DOMAIN log}

GetPasswordHash ==
    \E password \in Plaintexts, salt \in gensalt(digests) :
        LET call == [plain |-> password, hashed |-> get_password_hash_at(password, salt)]
        IN  /\ digests' = Append(digests, call)
            /\ last' = [NoResponse EXCEPT !.op = "get_password_hash", !.password = password,
                                          !.digest = <<call>>]
            /\ UNCHANGED <<role_default, limiter, users, cache, now, pending, contacts, contact_seq, fraction, held>>

VerifyPassword ==
    \E plain_password \in Plaintexts, i \in DOMAIN digests :
        /\ last' = [NoResponse EXCEPT !.op = "verify_password", !.password = plain_password,
                                      !.digest = <<digests[i]>>,
                                      !.ok = verify_password(plain_password, digests[i].hashed)]
        /\ UNCHANGED <<role_default, limiter, users, cache, now, pending, contacts, contact_seq, fraction, held, digests>>

NextHash == GetPasswordHash \/ VerifyPassword

SpecHash == Init /\ [][NextHash]_vars

-----------------------------------------------------------------------------
(* Steps of a request, as the properties below recognise them *)

\* The step is the first of a request: no request in flight was taken up.
Started == pending \sqsubseteq pending'

\* The step resumes the request p, which was in flight.
Took(p) == CopiesIn(p, pending') < CopiesIn(p, pending)

\* The request presented a token that decodes and names a subject.
Resolving(r) == r.op \in {"me", "avatar"} /\ r.decoded /\ r.sub # NoSub

\* The instant, in half seconds
Instant == 2 * now + fraction

\* The cache holds a live entry under key e.
Cached(e) == e \in DOMAIN cache /\ Instant < cache[e].expires

-----------------------------------------------------------------------------
(* Properties of the session core, checked under SpecSession *)

\* C1: get_current_user never returns a user for a correctly signed,
\* unexpired token with a subject whose type claim is "password_reset": the
\* request fails with 401 in its first step, whatever the cache and the
\* directory hold.
C1_PasswordResetTokenIsUnauthorized ==
    (Resolving(last) /\ last.ttype = "password_reset")
        => (last.stage = "done" /\ last.status = 401 /\ last.ret = <<>>)

\* A password_reset token for a registered, cached user was presented.
C1_Witness ==
    /\ last.op = "me" /\ last.decoded /\ last.ttype = "password_reset"
    /\ last.sub = "bob" /\ get_by_email(users, "bob") # 0 /\ "bob" \in DOMAIN cache
    /\ last.status = 401

\* C4: a correctly signed, unexpired token whose type claim is any value
\* other than "access" is refused by get_current_user.
C4_OnlyAccessPurposeResolves ==
    (Resolving(last) /\ last.ttype \notin {"access", NoType})
        => (last.stage = "done" /\ last.status = 401 /\ last.ret = <<>>)

\* C5: when the cache answers get_current_user with a snapshot (a hit), the
\* resolver reads no directory row and writes no cache entry, and hands the
\* user built from the snapshot to the handler in the same step; GET
\* /users/me answers with it (or 429).
C5_CacheHitReadsNoDirectory ==
    [][\A p \in BagToSet(pending) :
       (/\ Took(p) /\ p.op \in {"me", "avatar"} /\ p.stage = "get_user_data"
        /\ Cached(p.sub))
       => LET data == cache[p.sub].data[2] IN
          /\ last'.path = "hit" /\ last'.stage = "done"
          /\ ~last'.db_read /\ ~last'.cache_write
          /\ cache' = cache /\ users' = users
          /\ last'.ret = <<[id |-> data.id, email |-> data.email,
                            created_at |-> data.created_at[2],
                            avatar_url |-> data.avatar_url, role |-> data.role]>>
          /\ last'.op = "me" => last'.status \in {200, 429}]_vars

\* A hit returned an avatar_url that differs from the directory's.
C5_Witness ==
    /\ last.op = "me" /\ last.path = "hit" /\ last.status = 200
    /\ get_by_email(users, last.sub) # 0
    /\ last.ret[1].avatar_url # users[get_by_email(users, last.sub)].avatar_url

\* C6: on a cache miss with a valid access token get_current_user reads the
\* directory by the token's subject; with no such user it fails with 401 and
\* leaves the cache alone; otherwise it stores the snapshot (id, email,
\* created_at, avatar_url, role) of the user it read under the subject's key
\* with the default TTL and returns that user.
C6_CacheMissReadsDirectory ==
    /\ [][\A p \in BagToSet(pending) :
            (/\ Took(p) /\ p.op = "me" /\ p.stage = "get_user_data"
             /\ p.ttype \in {"access", NoType} /\ ~Cached(p.sub))
            => /\ last'.path = "miss" /\ last'.stage = "get_by_email"
               /\ cache' = cache /\ ~last'.db_read]_vars
    /\ [][\A p \in BagToSet(pending) :
            (Took(p) /\ p.op = "me" /\ p.stage = "get_by_email")
            => LET found == {i \in 1..Len(users) : users[i].email = p.sub} IN
               /\ last'.db_read /\ cache' = cache
               /\ found = {} => (last'.stage = "done" /\ last'.status = 401
                                 /\ last'.ret = <<>>)
               /\ \A i \in found :
                     last'.stage = "set_user_data" /\ last'.ret = <<users[i]>>]_vars
    /\ [][\A p \in BagToSet(pending) :
            (Took(p) /\ p.op = "me" /\ p.stage = "set_user_data")
            => LET user == p.ret[1] IN
               /\ last'.stage = "done" /\ last'.status \in {200, 429}
               /\ last'.ret = <<user>>
               /\ DOMAIN cache' = DOMAIN cache \cup {p.sub}
               /\ \A e \in DOMAIN cache \ {p.sub} : cache'[e] = cache[e]
               /\ cache'[p.sub].expires = Instant + 2 * expiry
               /\ cache'[p.sub].data[1] = "json"
               /\ cache'[p.sub].data[2] =
                     [id |-> user.id, email |-> user.email,
                      created_at |-> <<"iso", user.created_at>>,
                      avatar_url |-> user.avatar_url, role |-> user.role]]_vars

\* A miss, later than the start, stored bob's snapshot while alice's was cached.
C6_Witness ==
    /\ last.op = "me" /\ last.path = "miss" /\ last.status = 200 /\ last.sub = "bob"
    /\ last.cache_write
    /\ now > 0 /\ DOMAIN cache = {"alice", "bob"} /\ cache["bob"].expires = Instant + 2 * 3600

\* The directory holds an avatar for the user of email e, who is no administrator.
AvatarIsSet(e) ==
    \E i \in 1..Len(users) :
        users[i].email = e /\ users[i].role # ADMIN /\ users[i].avatar_url # NoAvatar

\* C7: once a user's avatar_url is set, an upload_avatar call of that user,
\* not an administrator, is rejected with 403 and leaves avatar_url unchanged,
\* also when the request is resolved from a cached snapshot: a request that
\* the resolver hands to the handler after the avatar was set is answered 403.
C7_NonAdminAvatarChangeIsForbidden ==
    /\ [][\A p \in BagToSet(pending) :
            (/\ Took(p) /\ p.op = "avatar" /\ p.stage = "get_user_data"
             /\ AvatarIsSet(p.sub) /\ last'.stage = "done")
            => (last'.status = 403 /\ users' = users)]_vars
    /\ [][\A p \in BagToSet(pending) :
            (/\ Took(p) /\ p.op = "avatar" /\ p.stage = "set_user_data"
             /\ p.ret[1].role # ADMIN /\ p.ret[1].avatar_url # NoAvatar)
            => (last'.stage = "done" /\ last'.status = 403 /\ users' = users)]_vars

\* C20: the entry under a key is written only by a miss that found no entry,
\* with an expiry 3600 seconds later, and stays as written: no hit and no
\* other request rewrites it or extends its expiry; so it is gone 3600
\* seconds after it was written, and from then on get_current_user reads
\* the directory and returns the user as the directory holds it.
C20_CacheEntryLivesOneTtl ==
    /\ [](\A e \in DOMAIN cache : Instant < cache[e].expires /\ cache[e].expires <= Instant + 2 * 3600)
    /\ [][\A e \in DOMAIN cache' :
            IF e \in DOMAIN cache
            THEN cache'[e] = cache[e]
            ELSE /\ last'.cache_write /\ last'.sub = e
                 /\ cache'[e].expires = Instant + 2 * 3600]_vars
    /\ [][(last'.op \in {"me", "avatar"} /\ last'.path = "hit") => cache' = cache]_vars
    /\ [][\A p \in BagToSet(pending) :
            (Took(p) /\ p.stage = "get_user_data" /\ ~Cached(p.sub))
            => last'.path = "miss" /\ last'.stage = "get_by_email"]_vars
    /\ [][\A p \in BagToSet(pending) :
            (Took(p) /\ p.stage = "get_by_email")
            => \A i \in 1..Len(users) :
                  users[i].email = p.sub => last'.ret = <<users[i]>>]_vars

\* C24: a request whose token does not decode (forged, malformed, expired)
\* or decodes without a sub claim is answered 401 in its first step, and the
\* resolver reads neither the cache nor the directory and leaves the cache
\* as it was.
C24_ValidationPrecedesLookups ==
    [][(last'.op \in {"me", "avatar"} /\ (~last'.decoded \/ last'.sub = NoSub)) =>
            /\ Started
            /\ last'.stage = "done" /\ last'.status = 401
            /\ ~last'.cache_read /\ ~last'.db_read /\ ~last'.cache_write
            /\ last'.ret = <<>>
            /\ cache' = cache /\ users' = users]_vars

\* bob is registered and not cached, and a request with an undecodable token
\* was refused.
C24_Witness ==
    /\ last.op = "me" /\ ~last.decoded /\ last.status = 401
    /\ get_by_email(users, "bob") # 0
    /\ "bob" \notin DOMAIN cache

\* C25: the resolver accepts a token only for a subject whose email is
\* verified: whoever GET /users/me answers for has is_verified set.
C25_OnlyVerifiedUsersResolve ==
    [][(last'.op = "me" /\ last'.status = 200) =>
            users'[get_by_email(users', last'.sub)].is_verified]_vars

\* C26: the user GET /users/me returns has the fields id, email, created_at,
\* avatar_url and role and no other, on the hit path and on the miss path
\* alike; the stored password hash is never among them.
C26_ResolvedUserHasTheResponseFields ==
    (last.op = "me" /\ last.status = 200) =>
        /\ last.path \in {"hit", "miss"}
        /\ DOMAIN last.ret[1] = {"id", "email", "created_at", "avatar_url", "role"}

-----------------------------------------------------------------------------
(* Properties of the account life cycle, checked under SpecAccount *)

\* The directory holds a user of email e.
Known(e) == \E i \in 1..Len(users) : users[i].email = e

\* C2: GET /users/verify refuses a correctly signed, unexpired token whose
\* type claim is "password_reset": no step of the request changes the
\* directory, and its answer is 400.
C2_VerifyRefusesResetToken ==
    [][(last'.op = "verify" /\ last'.decoded /\ last'.ttype = "password_reset")
       => (users' = users /\ (last'.stage = "done" => last'.status = 400))]_vars

\* C3: a token whose type claim is "access" or absent never resets a
\* password: reset_password (given a body that passes validation, a new
\* password of 8 characters or more) answers 400 and no stored hash changes.
C3_AccessTokenResetsNoPassword ==
    [][(/\ last'.op = "reset" /\ Len(last'.password) >= 8
        /\ last'.data[1].type \in {"access", NoType})
       => (last'.status = 400 /\ users' = users)]_vars

\* C8: registering an email the directory holds answers 409, creates and
\* changes no user and schedules no mail; registering a new email goes on to
\* the commit, which appends exactly one user with that email while the email
\* is still new, and answers 201 with one verification mail; no two users
\* share an email.
C8_RegistrationKeepsEmailsUnique ==
    /\ [](\A i, j \in 1..Len(users) : users[i].email = users[j].email => i = j)
    /\ [][(Started /\ last'.op = "register")
          => /\ users' = users
             /\ last'.mail = <<>>
             /\ IF Known(last'.email)
                THEN last'.stage = "done" /\ last'.status = 409
                ELSE last'.stage = "commit"]_vars
    /\ [][\A p \in BagToSet(pending) :
            (Took(p) /\ p.op = "register" /\ p.stage = "commit" /\ ~Known(p.email))
            => /\ last'.stage = "refresh"
               /\ Len(users') = Len(users) + 1
               /\ SubSeq(users', 1, Len(users)) = users
               /\ users'[Len(users')].email = p.email]_vars
    /\ [][\A p \in BagToSet(pending) :
            (Took(p) /\ p.op = "register" /\ p.stage = "refresh")
            => /\ last'.stage = "done" /\ last'.status = 201
               /\ users' = users
               /\ Len(last'.mail) = 1
               /\ last'.mail[1].kind = "verification"
               /\ last'.mail[1].to = p.email]_vars

\* bob's email was registered a second time.
C8_Witness ==
    /\ last.op = "register" /\ last.status = 409 /\ last.email = "bob"
    /\ Len(users) = 2

\* C10: a user is created unverified; login with the right password answers
\* 403 without a token while is_verified is false and 200 with an access
\* token of type "bearer" once it is true; the flag becomes true only when a
\* verification token is redeemed.
C10_LoginRequiresVerification ==
    /\ [][Len(users') > Len(users)
          => /\ last'.op = "register" /\ last'.stage = "refresh"
             /\ Len(users') = Len(users) + 1
             /\ ~users'[Len(users')].is_verified
             /\ users'[Len(users')].email = last'.email]_vars
    /\ [](last.op = "login"
            => \A i \in 1..Len(users) :
                  (users[i].email = last.email /\ users[i].hashed_password.pw = last.password)
                  => IF ~users[i].is_verified
                     THEN last.status = 403 /\ last.body = <<>>
                     ELSE /\ last.status = 200
                          /\ Len(last.body) = 1
                          /\ last.body[1].token_type = "bearer"
                          /\ last.body[1].access_token.sub = last.email
                          /\ last.body[1].access_token.sig
                          /\ last.body[1].access_token.exp = now + ACCESS_TOKEN_EXPIRE_MINUTES * 60)
    /\ [][\A i \in 1..Len(users) :
            (~users[i].is_verified /\ users'[i].is_verified)
            => /\ last'.op = "verify" /\ last'.stage = "refresh"
               /\ last'.sub = users[i].email]_vars

\* bob, registered and then verified, logged in.
C10_Witness ==
    /\ last.op = "login" /\ last.status = 200 /\ last.email = "bob"

\* C11: login answers 401, with no token, when the email is unknown or the
\* password does not verify against the stored hash, also for an unverified
\* user (401, not 403); login modifies neither the directory nor the cache.
C11_BadCredentialsAreUnauthorized ==
    [][last'.op = "login"
       => /\ users' = users
          /\ cache' = cache
          /\ last'.stage = "done"
          /\ (\A i \in 1..Len(users) :
                users[i].email = last'.email
                => users[i].hashed_password #
                      [alg |-> "bcrypt", salt |-> users[i].hashed_password.salt,
                       pw |-> last'.password])
             => (last'.status = 401 /\ last'.body = <<>>)]_vars

\* bob, registered and not verified, presented a wrong password.
C11_Witness ==
    /\ last.op = "login" /\ last.status = 401 /\ last.email = "bob"
    /\ \E i \in 1..Len(users) :
          /\ users[i].email = "bob"
          /\ ~users[i].is_verified
          /\ users[i].hashed_password.pw # last.password

\* C13: (for a body that passes validation, a new password of 8 characters
\* or more) redeeming a correctly signed, unexpired password_reset token whose
\* subject is a user answers 200 and overwrites that user's stored hash with
\* a hash of the new password, changing nothing else of that user and no
\* other user; a token that is expired, badly signed or whose subject is
\* unknown answers 400 and changes no stored hash.
C13_ResetRedemptionOverwritesOneHash ==
    [][(last'.op = "reset" /\ Len(last'.password) >= 8)
       => LET token == last'.data[1]
              known == Known(token.sub)
              valid == jwt_decode_ok(token, now)
          IN
          /\ (valid /\ token.type = "password_reset" /\ known)
                => /\ last'.status = 200
                   /\ Len(users') = Len(users)
                   /\ \A i \in 1..Len(users) :
                         IF users[i].email = token.sub
                         THEN /\ users'[i].hashed_password.alg = "bcrypt"
                              /\ users'[i].hashed_password.pw = last'.password
                              /\ users'[i] = [users[i] EXCEPT !.hashed_password =
                                                 users'[i].hashed_password]
                         ELSE users'[i] = users[i]
          /\ (~valid \/ ~known)
                => (last'.status = 400 /\ users' = users)]_vars

\* C14: redeeming a decodable token whose subject is a user sets that user's
\* is_verified flag (at the commit) and returns the user, changing nothing
\* else; for a user already verified the user is returned at once and the
\* directory is left as it was; an undecodable token, a token without sub or
\* one whose subject is unknown yields no user (400) and changes nothing.
C14_VerificationSetsTheFlag ==
    /\ [][(Started /\ last'.op = "verify")
          => /\ users' = users
             /\ last'.ret = <<>>
             /\ IF last'.decoded /\ last'.sub # NoSub
                THEN last'.stage = "get_by_email"
                ELSE last'.stage = "done" /\ last'.status = 400]_vars
    /\ [][\A p \in BagToSet(pending) :
            (Took(p) /\ p.op = "verify" /\ p.stage = "get_by_email")
            => /\ users' = users
               /\ IF Known(p.sub)
                  THEN \A i \in 1..Len(users) :
                          users[i].email = p.sub
                          => /\ last'.ret = <<users[i]>>
                             /\ IF users[i].is_verified
                                THEN last'.stage = "done" /\ last'.status = 200
                                ELSE last'.stage = "commit"
                  ELSE last'.stage = "done" /\ last'.status = 400 /\ last'.ret = <<>>]_vars
    /\ [][\A p \in BagToSet(pending) :
            (Took(p) /\ p.op = "verify" /\ p.stage = "commit")
            => /\ last'.stage = "refresh"
               /\ Len(users') = Len(users)
               /\ \A i \in 1..Len(users) :
                     users'[i] = IF users[i].email = p.sub
                                 THEN [users[i] EXCEPT !.is_verified = TRUE]
                                 ELSE users[i]]_vars
    /\ [][\A p \in BagToSet(pending) :
            (Took(p) /\ p.op = "verify" /\ p.stage = "refresh")
            => /\ last'.stage = "done" /\ last'.status = 200
               /\ users' = users
               /\ \E i \in 1..Len(users) :
                     /\ users[i].email = p.sub /\ users[i].is_verified
                     /\ last'.ret = <<users[i]>>]_vars

\* bob's token was redeemed and bob is verified; alice is as she was.
C14_Witness ==
    /\ last.op = "verify" /\ last.status = 200 /\ last.sub = "bob"
    /\ last.stage = "done"
    /\ Len(users) = 2 /\ users[1] = AdminSeed
    /\ users[2].email = "bob" /\ users[2].is_verified
    /\ last.ret = <<users[2]>>

-----------------------------------------------------------------------------
(* Property of the reset mail, checked under SpecResetRequest *)

\* C12: the password-reset request answers 200 with one fixed message
\* whether or not the email belongs to a user; a reset token for that email
\* is created and mailed exactly when the user exists, none otherwise; the
\* directory is left as it was.
C12_ResetRequestHidesExistence ==
    [][last'.op = "reset_request"
       => /\ last'.status = 200
          /\ last'.body = <<"If your email exists in our system, you will receive a password reset link">>
          /\ users' = users
          /\ IF Known(last'.email)
             THEN /\ Len(last'.mail) = 1
                  /\ last'.mail[1].kind = "password_reset"
                  /\ last'.mail[1].to = last'.email
                  /\ last'.mail[1].token.sub = last'.email
                  /\ last'.mail[1].token.type = "password_reset"
                  /\ last'.mail[1].token.sig
             ELSE last'.mail = <<>>]_vars

-----------------------------------------------------------------------------
(* Property of concurrent registration, checked under SpecRace *)

\* C9: of two register_user requests for one email that both pass the lookup
\* before either commits, one creates the user and the other is answered 409.
C9_RaceLoserGetsConflict ==
    (last.op = "register" /\ last.stage = "done") => last.status \in {201, 409}

-----------------------------------------------------------------------------
(* Properties of the contacts routes, checked under SpecContacts *)

\* The step is the repository's get_by_id of the request p: the one statement
\* of GET /contacts/{id}, the first of update and delete.
ReadsById(p) ==
    /\ Took(p)
    /\ \/ p.op = "contact_get" /\ p.stage = "execute"
       \/ p.op \in {"contact_update", "contact_delete"} /\ p.stage = "get_by_id"

\* C15: get, update and delete of a contact by a user who does not own it
\* find nothing: the answer is 404 (not 403) with no row returned, and the
\* contact stays in the table unchanged.
C15_ForeignContactIsNotFound ==
    [][\A p \in BagToSet(pending) :
          ReadsById(p)
          => \A c \in contacts :
                (c.id = p.contact_id /\ c.user_id # p.caller)
                => /\ last'.stage = "done" /\ last'.status = 404 /\ last'.rows = {}
                   /\ contacts' = contacts]_vars

\* bob asked to delete a contact that alice owns.
C15_Witness ==
    /\ last.op = "contact_delete" /\ last.caller = 2 /\ last.status = 404
    /\ \E c \in contacts : c.id = last.contact_id /\ c.user_id = 1

\* The contact c with the six ContactCreate fields of the payload d
Updated(c, d) ==
    [id |-> c.id, user_id |-> c.user_id,
     first_name |-> d.first_name, last_name |-> d.last_name, email |-> d.email,
     phone_number |-> d.phone_number, birth_date |-> d.birth_date,
     additional_info |-> d.additional_info]

\* C17: update by the owner replaces (at the commit) exactly the six
\* ContactCreate fields of the contact it found by the given values, keeps
\* its id and user_id and every other contact, and returns the contact as the
\* table holds it; update of an id that is not in the table answers 404 and
\* changes nothing; no step changes the owner of a contact.
C17_UpdateReplacesThePayloadFields ==
    /\ [][\A p \in BagToSet(pending) :
            (ReadsById(p) /\ p.op = "contact_update")
            => /\ contacts' = contacts
               /\ (\A c \in contacts : c.id # p.contact_id)
                     => (last'.stage = "done" /\ last'.status = 404 /\ last'.rows = {})
               /\ \A c \in contacts :
                     (c.id = p.contact_id /\ c.user_id = p.caller)
                     => (last'.stage = "commit" /\ last'.rows = {c})]_vars
    /\ [][\A p \in BagToSet(pending) :
            (Took(p) /\ p.op = "contact_update" /\ p.stage = "commit")
            => \A c \in p.rows \cap contacts :
                  /\ last'.stage = "refresh"
                  /\ contacts' = (contacts \ {c}) \cup {Updated(c, p.data[1])}]_vars
    /\ [][\A p \in BagToSet(pending) :
            (Took(p) /\ p.op = "contact_update" /\ p.stage = "refresh")
            => /\ contacts' = contacts
               /\ \A c \in contacts :
                     c.id = p.contact_id
                     => (last'.stage = "done" /\ last'.status = 200 /\ last'.rows = {c})]_vars
    /\ [][\A c \in contacts, d \in contacts' : c.id = d.id => c.user_id = d.user_id]_vars
    /\ [](\A c, d \in contacts : c.id = d.id => c = d)

\* bob updated his contact to the second payload; alice's contact holds the first.
C17_Witness ==
    /\ last.op = "contact_update" /\ last.caller = 2 /\ last.status = 200
    /\ \E c \in contacts :
          /\ c.id = last.contact_id /\ c.user_id = 2
          /\ c.first_name = <<"b", "o">> /\ last.data[1].first_name = <<"b", "o">>
          /\ last.rows = {c}
    /\ \E c \in contacts : c.user_id = 1 /\ c.first_name = <<"A", "n">>

\* C18: delete by the owner removes (at the commit) exactly the contact it
\* found and returns it (204); an id that left the table does not come back,
\* so afterwards no user finds a contact of that id and a second delete of
\* the id answers 404; delete of an id that is not in the table answers 404
\* and changes nothing.
C18_DeleteRemovesExactlyOneContact ==
    /\ [][\A p \in BagToSet(pending) :
            (ReadsById(p) /\ p.op = "contact_delete")
            => /\ contacts' = contacts
               /\ (\A c \in contacts : c.id # p.contact_id)
                     => (last'.stage = "done" /\ last'.status = 404 /\ last'.rows = {})
               /\ \A c \in contacts :
                     (c.id = p.contact_id /\ c.user_id = p.caller)
                     => (last'.stage = "commit" /\ last'.rows = {c})]_vars
    /\ [][\A p \in BagToSet(pending) :
            (Took(p) /\ p.op = "contact_delete" /\ p.stage = "commit")
            => /\ last'.stage = "done" /\ last'.status = 204 /\ last'.rows = p.rows
               /\ contacts' = {c \in contacts : c.id # p.contact_id}
               /\ \A u \in 1..Len(users) :
                     get_by_id(contacts', p.contact_id, [id |-> u]) = {}]_vars
    /\ [][\A id \in 1..contact_seq :
            (\A c \in contacts : c.id # id) => (\A c \in contacts' : c.id # id)]_vars

\* bob deleted his contact; alice's is still in the table.
C18_Witness ==
    /\ last.op = "contact_delete" /\ last.caller = 2 /\ last.status = 204
    /\ \A c \in contacts : c.id # last.contact_id
    /\ Cardinality(contacts) = 1 /\ \A c \in contacts : c.user_id = 1

-----------------------------------------------------------------------------
(* Property of the listings, checked under SpecListings *)

\* C16: the list, the search and the upcoming birthdays of a user hold only
\* contacts of the table whose user_id is the caller's id, and the list holds
\* every such contact.
C16_ListingsAreScopedToTheCaller ==
    (last.op \in {"contact_list", "contact_search", "contact_birthdays"} /\ last.status = 200)
        => /\ \A c \in last.rows : c \in contacts /\ c.user_id = last.caller
           /\ last.op = "contact_list"
                => last.rows = {c \in contacts : c.user_id = last.caller}

\* bob listed his contact while alice owns another.
C16_Witness ==
    /\ last.op = "contact_list" /\ last.caller = 2 /\ last.status = 200
    /\ Cardinality(last.rows) = 1 /\ Cardinality(contacts) = 2

-----------------------------------------------------------------------------
(* Properties of the user cache, checked under SpecCache *)

-----------------------------------------------------------------------------
(* Property of the credential hasher, checked under SpecHash *)

\* C23: a digest verifies against the plaintext it was made from and against
\* no other plaintext, a digest never equals its plaintext, and two digests
\* of one plaintext differ and both verify against it.
C23_DigestVerifiesOnlyItsPlaintext ==
    /\ last.op = "verify_password" =>
            last.ok = (last.password = last.digest[1].plain)
    /\ \A i \in DOMAIN digests :
            /\ verify_password(digests[i].plain, digests[i].hashed)
            /\ \A q \in Plaintexts \ {digests[i].plain} : ~verify_password(q, digests[i].hashed)
            /\ digests[i].hashed.alg = "bcrypt"    \* a digest, which no plaintext is
    /\ \A i, j \in DOMAIN digests :
            (i # j /\ digests[i].plain = digests[j].plain) =>
                /\ digests[i].hashed # digests[j].hashed
                /\ verify_password(digests[i].plain, digests[j].hashed)


-----------------------------------------------------------------------------
(* Properties of a token's life, checked under SpecToken *)

\* The lifetime of the held token: the expires_delta given, the default of 30
\* minutes when none was given.
HeldLifetime == IF held[1].expires_delta = 0 THEN ACCESS_TOKEN_EXPIRE_MINUTES * 60
                ELSE held[1].expires_delta

\* The request that presented the held token was not refused for it: the
\* token decoded to its subject and the resolver went on to look the subject
\* up, first in the cache.
HeldValidated(r) ==
    /\ r.decoded /\ r.sub = held[1].token.sub
    /\ r.stage = "get_user_data"

HeldRefused(r) == ~r.decoded /\ r.stage = "done" /\ r.status = 401 /\ r.ret = <<>>

\* C19 as stated: a token issued for subject s with lifetime ttl validates to
\* s at every instant before issue_time + ttl and fails validation at every
\* instant after issue_time + ttl, whatever the directory and the cache hold.
C19_TokenFailsRightAfterItsLifetime ==
    [][(Started /\ last'.op = "me" /\ held # <<>>)
       => LET instant == 2 * now + fraction
              expire == 2 * (held[1].issued_at + HeldLifetime) + held[1].issued_fraction
          IN  /\ instant < expire => HeldValidated(last')
              /\ instant > expire => HeldRefused(last')]_vars

\* C19, amended: a token issued for subject s with lifetime ttl validates to
\* s at every instant before issue_time + ttl and fails validation at every
\* instant whose whole second is later than the whole second of
\* issue_time + ttl, whatever the directory and the cache hold.
C19_TokenLivesForItsLifetime ==
    [][(Started /\ last'.op = "me" /\ held # <<>>)
       => LET instant == 2 * now + fraction
              expire == 2 * (held[1].issued_at + HeldLifetime) + held[1].issued_fraction
          IN  /\ instant < expire => HeldValidated(last')
              /\ now > held[1].issued_at + HeldLifetime => HeldRefused(last')]_vars

\* A token of the default lifetime was refused one second after its expiry
\* while its subject was still cached.
C19_Witness ==
    /\ last.op = "me" /\ held # <<>> /\ HeldRefused(last)
    /\ held[1].expires_delta = 0
    /\ now = held[1].issued_at + ACCESS_TOKEN_EXPIRE_MINUTES * 60 + 1
    /\ held[1].token.sub \in DOMAIN cache

-----------------------------------------------------------------------------
(* Properties of the role guard, checked under SpecRole *)

\* The request of `last` is authenticated: its token decodes, names a subject
\* the directory holds and is not a password_reset token.
Authenticated ==
    /\ last.decoded /\ last.sub # NoSub /\ last.ttype # "password_reset"
    /\ \E i \in 1..Len(users) : users[i].email = last.sub

\* C22: the guard built by RoleChecker(allowed_roles) answers 401 for a
\* request get_current_user refuses, never 403; for an authenticated user it
\* returns the user get_current_user resolved, unchanged, exactly when the
\* user's role is in allowed_roles, and answers 403 otherwise; admin_only
\* admits only ADMIN.
C22_RoleGuardAdmitsAllowedRoles ==
    (last.op = "guard" /\ last.stage = "done")
        => /\ ~Authenticated => (last.status = 401 /\ last.ret = <<>>)
           /\ Authenticated
                => \A i \in 1..Len(users) :
                      users[i].email = last.sub
                      => IF users[i].role \in last.allowed
                         THEN /\ last.status = 200
                              /\ last.path = "miss" => last.ret = <<users[i]>>
                              /\ last.path = "hit"
                                    => /\ last.ret[1].id = users[i].id
                                       /\ last.ret[1].email = users[i].email
                                       /\ last.ret[1].role = users[i].role
                                       /\ last.ret[1].avatar_url = cache[last.sub].data[2].avatar_url
                         ELSE last.status = 403 /\ last.ret = <<>>
           /\ (last.allowed = {"admin"} /\ last.status = 200) => last.ret[1].role = "admin"

\* bob, a plain user resolved from the cache, was refused by admin_only.
C22_Witness ==
    /\ last.op = "guard" /\ last.status = 403 /\ last.sub = "bob"
    /\ last.path = "hit" /\ last.allowed = {"admin"}

-----------------------------------------------------------------------------
(* Property of concurrent avatar uploads, checked under SpecAvatarRace *)

\* C27: of the concurrent uploads of one user who is no administrator at most
\* one writes avatar_url: such a user's upload commits only onto an avatar_url
\* that is still null.
C27_AvatarIsWrittenOnce ==
    [][\A p \in BagToSet(pending) :
          (Took(p) /\ p.op = "avatar" /\ p.stage = "commit" /\ p.ret[1].role # ADMIN)
          => users[p.ret[1].id].avatar_url = NoAvatar]_vars

-----------------------------------------------------------------------------
(* Properties of the whole API, checked under SpecApi *)

\* The entry under key e is stored by get_current_user: the step is the
\* await of set_user_data in a request whose token names e and whose lookup
\* read a row of email e, and the entry is that row's snapshot, stored for
\* one expiry.
WrittenByResolver(e) ==
    \E p \in BagToSet(pending) :
        /\ Took(p) /\ p.stage = "set_user_data"
        /\ p.sub = e /\ p.db_read /\ p.ret[1].email = e
        /\ cache'[e] = [data |-> json_dumps(user_data_of(p.ret[1])), expires |-> Instant + 2 * expiry]

\* C28: every cache entry under the key of email e holds a snapshot with
\* email e and the id of the directory's user e; an entry appears or changes
\* only when get_current_user stores it after reading that user from the
\* directory, and no request removes an entry (Redis drops it at its expiry).
C28_CacheKeyConsistency ==
    /\ [](\A e \in DOMAIN cache :
            /\ get_by_email(users, e) # 0
            /\ json_loads(cache[e].data).email = e
            /\ json_loads(cache[e].data).id = users[get_by_email(users, e)].id)
    /\ [][\A e \in Emails \cup {NoSub} :
            /\ (e \in DOMAIN cache' /\ (e \notin DOMAIN cache \/ cache'[e] # cache[e])) =>
                    WrittenByResolver(e)
            /\ (e \in DOMAIN cache /\ e \notin DOMAIN cache') =>
                    (last'.op = "tick" /\ cache[e].expires <= 2 * now' + fraction')]_vars

\* bob's entry is in the cache while a request that does not resolve the
\* caller (a login) has just been answered.
C28_Witness ==
    /\ "bob" \in DOMAIN cache
    /\ last.op = "login" /\ last.email = "bob" /\ last.status = 200

\* C30: a user once verified stays verified, and a user of the directory
\* stays in it with the id and the email it has.
C30_VerifiedStaysVerified ==
    [][/\ Len(users') >= Len(users)
       /\ \A i \in DOMAIN users :
            /\ users'[i].id = users[i].id
            /\ users'[i].email = users[i].email
            /\ users[i].is_verified => users'[i].is_verified]_vars

\* bob is verified and a later request wrote his row: an avatar was stored.
C30_Witness ==
    /\ last.op = "avatar" /\ last.status = 200
    /\ get_by_email(users, "bob") # 0
    /\ users[get_by_email(users, "bob")].is_verified
    /\ users[get_by_email(users, "bob")].avatar_url # NoAvatar

====
